---- MODULE Spec2Model ----
(***************************************************************************)
(* Model of the "AI Ready" quiz wizard (src/app.py): the session state of  *)
(* one Streamlit session, one action per user event of each screen, and    *)
(* the submission of a response row with bounded retry.                    *)
(*                                                                         *)
(* One action is one user event together with the script runs it causes:   *)
(* the run that handles the widget event and, when that run ends in        *)
(* st.rerun(), the runs that follow until a page is shown (operator main). *)
(*                                                                         *)
(* Python values: None is <<>>, a present value v is <<v>>; a text is the  *)
(* sequence of its characters ("" is <<>>).                                *)
(*                                                                         *)
(* The scoring functions of src/app.py and the helpers of src/logic.py are *)
(* operators; SpecCalc calls each of them once on sampled arguments. The   *)
(* Japanese labels are written by ASCII names, the emoji by their names.   *)
(***************************************************************************)
EXTENDS Integers, Sequences, FiniteSets, TLC

VARIABLES
    session_state,  \* st.session_state: the session's mutable state (a record)
    secrets,        \* the keys present in st.secrets (fixed for a deployment)
    sheet,          \* the rows of the worksheet, in append order
    uuids,          \* how many uuid4() values have been drawn
    results,        \* the ScoreResult computed by the last action (<<>>: none)
    submission,     \* what the last call of append_response_to_sheet did
    store,          \* how the row store behaved during that call (<<>>: no call)
    event,          \* the user event the last action handled
    warnings,       \* the st.warning / st.info messages the last action emitted
    moves,          \* slider moves made so far (bounded by MaxSliderMoves)
    calc            \* the last call of a scoring function: its name, its
                    \* arguments and what it returned (SpecCalc)

vars == <<session_state, secrets, sheet, uuids, results, submission, store, event,
          warnings, moves, calc>>

-----------------------------------------------------------------------------
(* Bounds of the model *)

\* slider moves (value changes without a button press) per behaviour
MaxSliderMoves == 1

-----------------------------------------------------------------------------
(* Program constants *)

NumQuestions == 10
SLIDER_MIN == 0
\* mutant: the slider admits one value more than 100
SLIDER_MAX_off == 100 + 1
SLIDER_MAX == 100
SLIDER_DEFAULT == 50
max_attempts == 3

None == <<>>
Some(v) == <<v>>

\* question ids q1..q10; the question at cursor idx (0-based) is q(idx+1)
Questions == 1..NumQuestions
question_id(idx) == idx + 1

OTHER_INDUSTRY == <<"other", "(free text)">>
INDUSTRY_OPTIONS ==
    << <<"manufacturing">>, <<"information">>, <<"retail">>, <<"professional">>,
       <<"medical">>, <<"education">>, <<"construction">>, <<"food">>,
       <<"public">>, OTHER_INDUSTRY >>
DEFAULT_PREFECTURE == "Kyoto"
PREFECTURE_OPTIONS == {"Hokkaido", "Tokyo", "Kyoto", "Okinawa"}
GOOGLE_SHEETS_CREDS == "GOOGLE_SHEETS_CREDS"

Steps == {"industry", "questions", "ready", "results", "completed"}

-----------------------------------------------------------------------------
(* Inputs the user events are drawn from *)

SliderSamples == {SLIDER_MIN, SLIDER_DEFAULT, SLIDER_MAX}
PrefectureSamples == {DEFAULT_PREFECTURE, "Tokyo"}
IndustrySamples == {INDUSTRY_OPTIONS[1], OTHER_INDUSTRY}
CustomTexts == {<<>>, <<" ">>, <<" ", "a", " ">>}
\* the sets of unanswered questions InitAny draws from
HoleSamples == {{}, {1}, {NumQuestions}, {3, 7}, Questions}
\* the cursors InitAny draws from
CursorSamples == 0..(NumQuestions - 1)

-----------------------------------------------------------------------------
(* Text helpers *)

IsSpace(ch) == ch \in {" ", "\t", "\n"}

RECURSIVE lstrip(_)
lstrip(t) == IF t # <<>> /\ IsSpace(Head(t)) THEN lstrip(Tail(t)) ELSE t

RECURSIVE rstrip(_)
rstrip(t) ==
    IF t # <<>> /\ IsSpace(t[Len(t)]) THEN rstrip(SubSeq(t, 1, Len(t) - 1)) ELSE t

\* str.strip()
strip(t) == rstrip(lstrip(t))

-----------------------------------------------------------------------------
(* Session state *)

uuid4(n) == n + 1

\* the keys of st.session_state the wizard uses; "sliders" stands for the
\* slider_<id> keys
SessionKeys ==
    {"client_id", "prefecture", "industry_choice", "industry_custom", "industry",
     "answers", "current_question", "step", "sliders"}

defaults(uuid) ==
    [ client_id        |-> uuid,
      prefecture       |-> DEFAULT_PREFECTURE,
      industry_choice  |-> INDUSTRY_OPTIONS[1],
      industry_custom  |-> <<>>,
      industry         |-> None,
      answers          |-> [q \in Questions |-> None],
      current_question |-> 0,
      step             |-> "industry",
      sliders          |-> [q \in Questions |-> None] ]

\* ensure_session_defaults: every key that is not in st.session_state gets
\* its default, the keys in `present` keep their value
ensure_session_defaults(s, present, uuid) ==
    [k \in SessionKeys |-> IF k \in present THEN s[k] ELSE defaults(uuid)[k]]

\* the questions whose answer is None, in question order
incomplete(answers) == {q \in Questions : answers[q] = None}

\* mutant: the last unanswered question instead of the first
first_incomplete_last(answers) ==
    CHOOSE q \in incomplete(answers) : \A r \in incomplete(answers) : q >= r

first_incomplete(answers) ==
    CHOOSE q \in incomplete(answers) : \A r \in incomplete(answers) : q <= r

\* ensure_answer_value
ensure_answer_value(answers, question, value) ==
    [answers EXCEPT ![question] = Some(value)]

\* the slider of the question at the cursor, as render_question_step shows it:
\* the stored widget value, or else the previous answer, or else 50
slider_default(s, q) ==
    IF s.answers[q] # None THEN s.answers[q][1] ELSE SLIDER_DEFAULT

slider_value(s, q) ==
    IF s.sliders[q] # None THEN s.sliders[q][1] ELSE slider_default(s, q)

-----------------------------------------------------------------------------
(* Scoring: compute_results *)

\* sum of the answers with a key among q1..qn
RECURSIVE SumTo(_, _)
SumTo(answers, n) ==
    IF n = 0 THEN 0
    ELSE (IF n \in DOMAIN answers THEN answers[n][1] ELSE 0) + SumTo(answers, n - 1)

\* mutant: ties go up
round_half_up(n, d) ==
    IF 2 * (n % d) < d THEN n \div d ELSE (n \div d) + 1

\* Python round() of the exact quotient n / d (d > 0): ties go to the even integer
round_half_even(n, d) ==
    LET q == n \div d
        r == n % d
    IN  IF 2 * r < d THEN q
        ELSE IF 2 * r > d THEN q + 1
        ELSE IF q % 2 = 0 THEN q ELSE q + 1

\* The (ai_ready, ai_adoption) pairs whose reduction lies exactly halfway
\* between two tenths and for which the double-precision evaluation of line
\* 197 followed by round(x, 1) gives the lower tenth; every other halfway
\* pair gives the upper tenth.
ReductionTiesDown ==
    {<<3, 25>>, <<7, 75>>, <<9, 75>>, <<13, 75>>, <<15, 25>>, <<15, 55>>,
     <<15, 65>>, <<21, 75>>, <<25, 7>>, <<25, 15>>, <<25, 27>>, <<25, 29>>,
     <<25, 31>>, <<25, 33>>, <<25, 35>>, <<25, 47>>, <<25, 51>>, <<25, 53>>,
     <<25, 55>>, <<25, 67>>, <<25, 75>>, <<25, 77>>, <<25, 79>>, <<25, 81>>,
     <<25, 87>>, <<25, 91>>, <<25, 93>>, <<25, 95>>, <<25, 99>>, <<27, 25>>,
     <<29, 25>>, <<31, 25>>, <<35, 5>>, <<35, 15>>, <<35, 25>>, <<35, 35>>,
     <<35, 55>>, <<35, 65>>, <<35, 75>>, <<37, 25>>, <<37, 75>>, <<39, 25>>,
     <<39, 75>>, <<41, 75>>, <<43, 25>>, <<45, 5>>, <<45, 15>>, <<45, 75>>,
     <<47, 25>>, <<47, 75>>, <<51, 25>>, <<51, 75>>, <<53, 75>>, <<55, 15>>,
     <<55, 25>>, <<55, 95>>, <<59, 25>>, <<63, 25>>, <<65, 5>>, <<65, 15>>,
     <<65, 55>>, <<65, 65>>, <<65, 95>>, <<69, 25>>, <<71, 25>>, <<71, 75>>,
     <<75, 1>>, <<75, 5>>, <<75, 9>>, <<75, 13>>, <<75, 15>>, <<75, 17>>,
     <<75, 23>>, <<75, 25>>, <<75, 29>>, <<75, 31>>, <<75, 33>>, <<75, 37>>,
     <<75, 45>>, <<75, 51>>, <<75, 53>>, <<75, 59>>, <<75, 61>>, <<75, 63>>,
     <<75, 65>>, <<75, 79>>, <<75, 83>>, <<75, 85>>, <<75, 87>>, <<75, 89>>,
     <<75, 91>>, <<75, 93>>, <<75, 99>>, <<79, 25>>, <<83, 25>>, <<83, 75>>,
     <<85, 15>>, <<85, 25>>, <<85, 45>>, <<85, 55>>, <<85, 75>>, <<85, 85>>,
     <<87, 25>>, <<87, 75>>, <<89, 75>>, <<91, 25>>, <<91, 75>>, <<95, 25>>,
     <<95, 35>>, <<95, 55>>, <<95, 65>>, <<97, 75>>, <<99, 25>>, <<99, 75>>}

\* round(reduction_pct, 1) in tenths of a percent; the exact value of the
\* formula is ai_ready * (900 - 6 * ai_adoption) / 1000 percent
reduction_tenths(ai_ready, ai_adoption) ==
    LET n == ai_ready * (900 - 6 * ai_adoption)
        q == n \div 100
        r == n % 100
    IN  IF r < 50 THEN q
        ELSE IF r > 50 THEN q + 1
        ELSE IF <<ai_ready, ai_adoption>> \in ReductionTiesDown THEN q ELSE q + 1

category_of(ai_ready) ==
    IF ai_ready >= 70 THEN "scale" ELSE IF ai_ready >= 40 THEN "trial" ELSE "start"

\* mutant: the adoption score is the average, and q4 has to be there
compute_results_average(answers) ==
    LET numeric_answers == {q \in DOMAIN answers : answers[q] # None} IN
    IF Cardinality(numeric_answers) # Cardinality(DOMAIN answers)
       \/ 4 \notin DOMAIN answers
    THEN [error |-> "ValueError"]
    ELSE LET ai_ready == round_half_even(SumTo(answers, NumQuestions),
                                         Cardinality(numeric_answers))
         IN  [ error          |-> "None",
               ai_ready       |-> ai_ready,
               ai_adoption    |-> ai_ready,
               reduction_pct  |-> reduction_tenths(ai_ready, ai_ready),
               category_label |-> category_of(ai_ready) ]

\* compute_results: the ScoreResult, or the ValueError of line 189, or the
\* StatisticsError mean() raises on no value at all; `answers` is a dict, a
\* function from the question ids it has as keys
compute_results(answers) ==
    LET numeric_answers == {q \in DOMAIN answers : answers[q] # None} IN
    IF Cardinality(numeric_answers) # Cardinality(DOMAIN answers)
    THEN [error |-> "ValueError"]
    ELSE IF numeric_answers = {}
    THEN [error |-> "StatisticsError"]
    ELSE LET ai_ready == round_half_even(SumTo(answers, NumQuestions),
                                         Cardinality(numeric_answers))
             ai_adoption == IF 4 \in DOMAIN answers THEN answers[4][1] ELSE 0
         IN  [ error          |-> "None",
               ai_ready       |-> ai_ready,
               ai_adoption    |-> ai_adoption,
               reduction_pct  |-> reduction_tenths(ai_ready, ai_adoption),
               category_label |-> category_of(ai_ready) ]

\* the 3x3 table of suggestion_from_matrix, each text by its headline
suggestion_matrix ==
    [ key \in {"junbi", "shikou", "kakuchou"} \X {"midounyuu", "ichibu", "teichaku"} |->
        CASE key = <<"junbi", "midounyuu">>    -> "start_with_the_foundation"
          [] key = <<"junbi", "ichibu">>       -> "spread_the_success_cases"
          [] key = <<"junbi", "teichaku">>     -> "build_governance"
          [] key = <<"shikou", "midounyuu">>   -> "start_now_with_daily_reports"
          [] key = <<"shikou", "ichibu">>      -> "measure_and_roll_out"
          [] key = <<"shikou", "teichaku">>    -> "standardise_and_train"
          [] key = <<"kakuchou", "midounyuu">> -> "full_introduction_now"
          [] key = <<"kakuchou", "ichibu">>    -> "company_wide_optimisation_and_roi"
          [] key = <<"kakuchou", "teichaku">>  -> "automation_and_advanced_use" ]

\* suggestion_from_matrix: the bands of lines 215-225, then matrix.get
suggestion_from_matrix(ai_ready, ai_adoption) ==
    LET ready_band == IF ai_ready >= 70 THEN "kakuchou"
                      ELSE IF ai_ready >= 40 THEN "shikou" ELSE "junbi"
        adoption_band == IF ai_adoption >= 70 THEN "teichaku"
                         ELSE IF ai_adoption >= 40 THEN "ichibu" ELSE "midounyuu"
    IN  IF <<ready_band, adoption_band>> \in DOMAIN suggestion_matrix
        THEN suggestion_matrix[<<ready_band, adoption_band>>]
        ELSE "consider_the_next_step"

-----------------------------------------------------------------------------
(* The calculation helpers of src/logic.py *)

\* mutant: 40 still belongs to the first band
READY_PHASES_off ==
    << <<0, 40, "seedling", "junbi">>,
       <<41, 69, "wrench", "shikou">>,
       <<70, 100, "rocket", "kakuchou">> >>

\* (min, max, emoji, name) and (min, max, label)
READY_PHASES ==
    << <<0, 39, "seedling", "junbi">>,
       <<40, 69, "wrench", "shikou">>,
       <<70, 100, "rocket", "kakuchou">> >>

\* mutant: the middle stage under the name the results screen uses for it
ADOPTION_PHASES_short ==
    << <<0, 39, "midounyuu">>,
       <<40, 69, "ichibu">>,
       <<70, 100, "teichaku">> >>

ADOPTION_PHASES ==
    << <<0, 39, "midounyuu">>,
       <<40, 69, "ichibu_dounyuu">>,
       <<70, 100, "teichaku">> >>

MATRIX_HINTS ==
    [ key \in {"junbi", "shikou", "kakuchou"}
              \X {"midounyuu", "ichibu_dounyuu", "teichaku"} |->
        CASE key = <<"junbi", "midounyuu">>         -> "foundation_and_small_trials"
          [] key = <<"junbi", "ichibu_dounyuu">>    -> "share_success_cases"
          [] key = <<"junbi", "teichaku">>          -> "governance"
          [] key = <<"shikou", "midounyuu">>        -> "daily_reports_first"
          [] key = <<"shikou", "ichibu_dounyuu">>   -> "templates_and_measurement"
          [] key = <<"shikou", "teichaku">>         -> "standardise_and_train"
          [] key = <<"kakuchou", "midounyuu">>      -> "high_effect_departments"
          [] key = <<"kakuchou", "ichibu_dounyuu">> -> "company_wide_optimisation_and_roi"
          [] key = <<"kakuchou", "teichaku">>       -> "automation_and_advanced_use" ]

\* the keys of a dict in the order of calc_ready's sorted(): by their number
RECURSIVE ordered_keys(_)
ordered_keys(keys) ==
    IF keys = {} THEN <<>>
    ELSE LET first == CHOOSE k \in keys : \A j \in keys : k <= j
         IN  <<first>> \o ordered_keys(keys \ {first})

\* _ensure_ten_answers: the values, or the ValueError of line 35 or 37
ensure_ten_answers(values) ==
    IF Len(values) # 10 THEN [error |-> "ValueError", values |-> <<>>]
    ELSE IF \E i \in 1..Len(values) : values[i] = None
    THEN [error |-> "ValueError", values |-> <<>>]
    ELSE [error |-> "None", values |-> values]

RECURSIVE sum(_)
sum(values) == IF values = <<>> THEN 0 ELSE Head(values)[1] + sum(Tail(values))

\* calc_ready: round(sum(values) / len(values)); the quotient of two small
\* integers is the nearest double, so a mean ending in .5 is a tie for round()
calc_ready(answers) ==
    LET keys == ordered_keys(DOMAIN answers)
        checked == ensure_ten_answers([i \in 1..Len(keys) |-> answers[keys[i]]])
    IN  IF checked.error # "None" THEN [error |-> checked.error]
        ELSE [error |-> "None",
              value |-> round_half_even(sum(checked.values), Len(checked.values))]

\* mutant: the share of adopters weighs against the reduction
calc_reduction_steep(ready, adoption) == ready * (900 - 16 * adoption)

\* mutant: the weights 0.9 and 0.3 change places
calc_reduction_swapped(ready, adoption) == ready * (300 + 6 * adoption)

\* calc_reduction, to the nearest thousandth of a percent: the formula's exact
\* value is ready * (900 - 6 * adoption) / 1000 and the double arithmetic of
\* line 55 stays within 1e-12 of it for arguments of this size
calc_reduction(ready, adoption) == ready * (900 - 6 * adoption)

phase_label(ready) ==
    IF \E i \in 1..Len(READY_PHASES) :
          READY_PHASES[i][1] <= ready /\ ready <= READY_PHASES[i][2]
    THEN LET i == CHOOSE i \in 1..Len(READY_PHASES) :
                     /\ READY_PHASES[i][1] <= ready /\ ready <= READY_PHASES[i][2]
                     /\ \A j \in 1..(i - 1) :
                           ~(READY_PHASES[j][1] <= ready /\ ready <= READY_PHASES[j][2])
         IN  READY_PHASES[i][3]
    ELSE "question_mark"

phase_name(ready) ==
    IF \E i \in 1..Len(READY_PHASES) :
          READY_PHASES[i][1] <= ready /\ ready <= READY_PHASES[i][2]
    THEN LET i == CHOOSE i \in 1..Len(READY_PHASES) :
                     /\ READY_PHASES[i][1] <= ready /\ ready <= READY_PHASES[i][2]
                     /\ \A j \in 1..(i - 1) :
                           ~(READY_PHASES[j][1] <= ready /\ ready <= READY_PHASES[j][2])
         IN  READY_PHASES[i][4]
    ELSE "mibunrui"

adoption_stage(adoption) ==
    IF \E i \in 1..Len(ADOPTION_PHASES) :
          ADOPTION_PHASES[i][1] <= adoption /\ adoption <= ADOPTION_PHASES[i][2]
    THEN LET i == CHOOSE i \in 1..Len(ADOPTION_PHASES) :
                     /\ ADOPTION_PHASES[i][1] <= adoption
                     /\ adoption <= ADOPTION_PHASES[i][2]
                     /\ \A j \in 1..(i - 1) :
                           ~(ADOPTION_PHASES[j][1] <= adoption
                             /\ adoption <= ADOPTION_PHASES[j][2])
         IN  ADOPTION_PHASES[i][3]
    ELSE "mibunrui"

\* matrix_hint: MATRIX_HINTS.get((phase, stage), default)
matrix_hint(ready, adoption) ==
    LET phase == phase_name(ready)
        stage == adoption_stage(adoption)
    IN  IF <<phase, stage>> \in DOMAIN MATRIX_HINTS
        THEN MATRIX_HINTS[<<phase, stage>>]
        ELSE "consider_the_current_situation"

-----------------------------------------------------------------------------
(* Submission: build_row_payload and append_response_to_sheet *)

\* `x or ""` for an optional text
or_empty(x) == IF x = None THEN <<>> ELSE x[1]

\* mutant: the row ends at the referrer, without the notes column
build_row_payload_no_notes(res, s) ==
    <<"timestamp">>
    \o [i \in 1..10 |-> IF s.answers[i] = None THEN None ELSE s.answers[i][1]]
    \o << res.ai_ready, res.ai_adoption, res.reduction_pct,
          s.prefecture, or_empty(s.industry), s.client_id,
          "streamlit-client", "direct" >>

build_row_payload(res, s) ==
    <<"timestamp">>
    \o [i \in 1..10 |-> IF s.answers[i] = None THEN None ELSE s.answers[i][1]]
    \o << res.ai_ready, res.ai_adoption, res.reduction_pct,
          s.prefecture, or_empty(s.industry), s.client_id,
          "streamlit-client", "direct", "" >>

\* What the row store does with one call: whether the client, spreadsheet
\* and worksheet can be opened, and the outcome of each append_row; an
\* "error_after_write" is an append reported as failed after the row landed.
AppendOutcomes == {"ok", "error", "error_after_write"}
Environments ==
    {env \in [client : BOOLEAN, append : [1..max_attempts -> AppendOutcomes]] :
        env.client \/ \A i \in 1..max_attempts : env.append[i] = "error"}

NoCall == [error |-> "NoCall", attempts |-> 0, waits |-> <<>>, cause |-> 0,
           appended |-> <<>>, log |-> <<>>]

\* the events of one call, in program order: an append_row with its attempt
\* number and outcome, a time.sleep with its seconds
append_row(attempt, outcome) == [op |-> "append_row", n |-> attempt, outcome |-> outcome]
sleep(wait_sec) == [op |-> "sleep", n |-> wait_sec, outcome |-> "slept"]

\* mutant: the wait does not grow
pow2_flat(k) == 1

pow2(k) == IF k = 0 THEN 1 ELSE IF k = 1 THEN 2 ELSE IF k = 2 THEN 4 ELSE 8

\* the retry loop of lines 394-403, from attempt `attempt` on
RECURSIVE append_loop(_, _, _, _)
append_loop(attempt, row_values, env, acc) ==
    LET outcome == env.append[attempt]
        landed == IF outcome = "error" THEN acc.appended
                  ELSE Append(acc.appended, row_values)
        wait_sec == pow2(attempt - 1)
        tried == Append(acc.log, append_row(attempt, outcome))
    IN  IF outcome = "ok"
        THEN [acc EXCEPT !.error = "None", !.attempts = attempt,
                         !.appended = landed, !.log = tried]
        ELSE IF attempt = max_attempts
        THEN [acc EXCEPT !.error = "PersistenceFailed", !.attempts = attempt,
                         !.cause = attempt, !.appended = landed, !.log = tried]
        ELSE append_loop(attempt + 1, row_values, env,
                         [acc EXCEPT !.attempts = attempt,
                                     !.waits = Append(acc.waits, wait_sec),
                                     !.appended = landed,
                                     !.log = Append(tried, sleep(wait_sec))])

\* mutant: a single attempt, its failure reported at once
append_response_to_sheet_once(row_values, secr, env) ==
    IF GOOGLE_SHEETS_CREDS \notin secr
    THEN [NoCall EXCEPT !.error = "NotConfigured"]
    ELSE IF ~env.client
    THEN [NoCall EXCEPT !.error = "ClientError"]
    ELSE IF env.append[1] = "ok"
    THEN [NoCall EXCEPT !.error = "None", !.attempts = 1,
                        !.appended = <<row_values>>]
    ELSE [NoCall EXCEPT !.error = "PersistenceFailed", !.attempts = 1,
                        !.cause = 1,
                        !.appended = IF env.append[1] = "error" THEN <<>>
                                     ELSE <<row_values>>]

\* mutant: the credentials are not looked for before the row store is used
append_response_to_sheet_unchecked(row_values, secr, env) ==
    IF ~env.client
    THEN [NoCall EXCEPT !.error = "ClientError"]
    ELSE append_loop(1, row_values, env, [NoCall EXCEPT !.error = "None"])

\* append_response_to_sheet: error is "None" on success, else the exception
\* that leaves the call
append_response_to_sheet(row_values, secr, env) ==
    IF GOOGLE_SHEETS_CREDS \notin secr
    THEN [NoCall EXCEPT !.error = "NotConfigured"]
    ELSE IF ~env.client
    THEN [NoCall EXCEPT !.error = "ClientError"]
    ELSE append_loop(1, row_values, env, [NoCall EXCEPT !.error = "None"])

-----------------------------------------------------------------------------
(* The script run without a widget event: main and the page it renders *)

\* mutant: the submit button is offered whatever the secrets hold
can_submit_always(secr) == TRUE
can_submit(secr) == GOOGLE_SHEETS_CREDS \in secr

\* lines 516-518 and 565-567: back to the first unanswered question
redirect_to_questions(s) ==
    [s EXCEPT !.current_question = first_incomplete(s.answers) - 1,
              !.step = "questions"]

\* main: dispatch on the step; a run that ends in st.rerun() is followed by
\* the next run. The result is the session state when a page is shown and
\* the warnings emitted on the way.
RECURSIVE main(_, _)
main(s, w) ==
    IF s.step = "industry" THEN
        \* render_industry_step with the widgets at their stored values
        [ s |-> [s EXCEPT
                   !.prefecture = IF s.prefecture \in PREFECTURE_OPTIONS
                                  THEN s.prefecture ELSE DEFAULT_PREFECTURE,
                   !.industry_custom = IF s.industry_choice = OTHER_INDUSTRY
                                       THEN s.industry_custom ELSE <<>>],
          w |-> w ]
    ELSE IF s.step = "questions" THEN
        \* render_question_step: the slider key gets its default value
        LET q == question_id(s.current_question) IN
        [ s |-> [s EXCEPT !.sliders[q] = Some(slider_value(s, q))], w |-> w ]
    ELSE IF s.step = "ready" THEN
        \* render_ready_step, lines 561-568
        IF incomplete(s.answers) # {}
        THEN main(redirect_to_questions(s), Append(w, "ready_incomplete"))
        ELSE [s |-> s, w |-> w]
    ELSE IF s.step = "results" THEN
        \* render_results_step, lines 511-519
        IF incomplete(s.answers) # {}
        THEN main(redirect_to_questions(s), Append(w, "results_incomplete"))
        ELSE [s |-> s, w |-> w]
    ELSE IF s.step = "completed" THEN
        [s |-> s, w |-> w]
    ELSE
        main([s EXCEPT !.step = "questions"], w)

\* the ScoreResult render_results_step computes when it shows the results
score_shown(s) ==
    IF s.step = "results" THEN Some(compute_results(s.answers)) ELSE None

\* the page is shown: session state, warnings and score after the last run
Shown(run, ev) ==
    \E shown \in {run} :
        /\ session_state' = shown.s
        /\ warnings' = shown.w
        /\ results' = score_shown(shown.s)
        /\ event' = ev

Rendered == event # "init"

\* no scoring function has been called on its own
NoCalc == [fn |-> "none"]

-----------------------------------------------------------------------------
(* Initial states *)

\* a fresh session: ensure_session_defaults on an empty session state, before
\* the first page is rendered
Init ==
    /\ session_state = ensure_session_defaults(defaults(0), {}, uuid4(0))
    /\ uuids = 1
    /\ secrets \in {{}, {GOOGLE_SHEETS_CREDS}}
    /\ sheet = <<>>
    /\ results = None
    /\ submission = NoCall
    /\ store = None
    /\ event = "init"
    /\ warnings = <<>>
    /\ moves = 0
    /\ calc = NoCalc

\* answer sets with the questions of one of HoleSamples unanswered
AnyAnswers ==
    {[q \in Questions |-> IF q \in H THEN None ELSE Some(SLIDER_DEFAULT)] :
        H \in HoleSamples}

\* a session in any state of its keys, before the next page is rendered; the
\* slider keys hold the answers given so far
InitAny ==
    /\ \E a \in AnyAnswers, idx \in CursorSamples,
          st \in Steps \cup {"unknown"} :
          session_state = [defaults(uuid4(0)) EXCEPT
                             !.answers = a, !.sliders = a,
                             !.current_question = idx, !.step = st,
                             !.prefecture = "Tokyo",
                             !.industry = Some(INDUSTRY_OPTIONS[1])]
    /\ uuids = 1
    /\ secrets \in {{}, {GOOGLE_SHEETS_CREDS}}
    /\ sheet = <<>>
    /\ results = None
    /\ submission = NoCall
    /\ store = None
    /\ event = "init"
    /\ warnings = <<>>
    /\ moves = 0
    /\ calc = NoCalc

\* the first script run of the session
first_run ==
    /\ event = "init"
    /\ Shown(main(session_state, <<>>), "load")
    /\ UNCHANGED <<calc, secrets, sheet, uuids, submission, store, moves>>

-----------------------------------------------------------------------------
(* Step "industry": render_industry_step *)

\* lines 463-494: the widget values are stored on every run
industry_widgets(s, prefecture, selected, custom_value) ==
    [s EXCEPT !.prefecture = prefecture,
              !.industry_choice = selected,
              !.industry_custom = IF selected = OTHER_INDUSTRY
                                  THEN custom_value ELSE <<>>]

\* the values the text input can return: it is disabled unless the sentinel
\* choice is selected
custom_inputs(s, selected) ==
    IF selected = OTHER_INDUSTRY THEN CustomTexts ELSE {s.industry_custom}

\* a selection or the free text is changed, the button is not pressed
render_industry_step_edit(prefecture, selected, custom_value) ==
    /\ Rendered
    /\ session_state.step = "industry"
    /\ Shown([s |-> industry_widgets(session_state, prefecture, selected,
                                     custom_value),
              w |-> <<>>], "industry_edit")
    /\ UNCHANGED <<calc, secrets, sheet, uuids, submission, store, moves>>

\* mutant: the free text is stored as typed, blank or not
industry_next_unchecked(s, selected, custom_value) ==
    IF selected = OTHER_INDUSTRY
    THEN main([s EXCEPT !.industry = Some(custom_value),
                        !.step = "questions"], <<>>)
    ELSE main([s EXCEPT !.industry = Some(selected), !.step = "questions"], <<>>)

\* lines 497-506: the advance button
industry_next(s, selected, custom_value) ==
    IF selected = OTHER_INDUSTRY
    THEN IF strip(custom_value) = <<>>
         THEN [s |-> s, w |-> <<"industry_required">>]
         ELSE main([s EXCEPT !.industry = Some(strip(custom_value)),
                             !.step = "questions"], <<>>)
    ELSE main([s EXCEPT !.industry = Some(selected), !.step = "questions"], <<>>)

render_industry_step_next(prefecture, selected, custom_value) ==
    /\ Rendered
    /\ session_state.step = "industry"
    /\ Shown(industry_next(industry_widgets(session_state, prefecture, selected,
                                            custom_value),
                           selected, custom_value), "industry_next")
    /\ UNCHANGED <<calc, secrets, sheet, uuids, submission, store, moves>>

-----------------------------------------------------------------------------
(* Step "questions": render_question_step *)

\* the slider of the current question is moved to `value`
render_question_step_slider(value) ==
    LET s == session_state
        q == question_id(s.current_question)
    IN  /\ Rendered
        /\ s.step = "questions"
        /\ moves < MaxSliderMoves
        /\ value # slider_value(s, q)
        /\ Shown([s |-> [s EXCEPT !.sliders[q] = Some(value)], w |-> <<>>],
                 "slider")
        /\ moves' = moves + 1
        /\ UNCHANGED <<calc, secrets, sheet, uuids, submission, store>>

\* mutant: the back button does not move while an answer is missing
question_back_validated(s) ==
    LET idx == s.current_question
        q == question_id(idx)
        stored == [s EXCEPT !.answers = ensure_answer_value(s.answers, q,
                                                            slider_value(s, q))]
    IN  IF incomplete(stored.answers) # {}
        THEN [s |-> stored, w |-> <<"unanswered">>]
        ELSE main([stored EXCEPT !.current_question = idx - 1], <<>>)

\* lines 441-444: the back button
question_back(s) ==
    LET idx == s.current_question
        q == question_id(idx)
        max0 == IF idx - 1 > 0 THEN idx - 1 ELSE 0
    IN  main([s EXCEPT !.answers = ensure_answer_value(s.answers, q,
                                                       slider_value(s, q)),
                       !.current_question = max0], <<>>)

render_question_step_back ==
    /\ Rendered
    /\ session_state.step = "questions"
    /\ session_state.current_question # 0      \* disabled=idx == 0
    /\ Shown(question_back(session_state), "back")
    /\ UNCHANGED <<calc, secrets, sheet, uuids, submission, store, moves>>

\* mutant: the next button moves on without storing the slider value
question_next_no_store(s) ==
    LET idx == s.current_question
    IN  IF idx + 1 < NumQuestions
        THEN main([s EXCEPT !.current_question = idx + 1], <<>>)
        ELSE IF incomplete(s.answers) # {}
        THEN [s |-> s, w |-> <<"unanswered">>]
        ELSE main([s EXCEPT !.step = "ready"], <<>>)

\* mutant: the last question leads to "ready" without the completeness check
question_next_unchecked(s) ==
    LET idx == s.current_question
        q == question_id(idx)
        stored == [s EXCEPT !.answers = ensure_answer_value(s.answers, q,
                                                            slider_value(s, q))]
    IN  IF idx + 1 < NumQuestions
        THEN main([stored EXCEPT !.current_question = idx + 1], <<>>)
        ELSE main([stored EXCEPT !.step = "ready"], <<>>)

\* lines 446-455: the next button
question_next(s) ==
    LET idx == s.current_question
        q == question_id(idx)
        total == NumQuestions
        stored == [s EXCEPT !.answers = ensure_answer_value(s.answers, q,
                                                            slider_value(s, q))]
    IN  IF idx + 1 < total
        THEN main([stored EXCEPT !.current_question = idx + 1], <<>>)
        ELSE IF incomplete(stored.answers) # {}
        THEN [s |-> stored, w |-> <<"unanswered">>]
        ELSE main([stored EXCEPT !.step = "ready"], <<>>)

render_question_step_next ==
    /\ Rendered
    /\ session_state.step = "questions"
    /\ Shown(question_next(session_state), "next")
    /\ UNCHANGED <<calc, secrets, sheet, uuids, submission, store, moves>>

-----------------------------------------------------------------------------
(* Step "ready": render_ready_step *)

\* mutant: the step is set after the append instead of in a finally clause
ready_submit_no_finally(s, secr, env) ==
    LET res == compute_results(s.answers)
        call == IF res.error # "None" THEN NoCall
                ELSE append_response_to_sheet(build_row_payload(res, s), secr, env)
        failed == res.error # "None" \/ call.error # "None"
    IN  [ call |-> call,
          run  |-> IF failed THEN [s |-> s, w |-> <<"submit_failed">>]
                   ELSE main([s EXCEPT !.step = "results"], <<>>) ]

\* mutant: the page stays on "ready" after the append
ready_submit_keep_step(s, secr, env) ==
    LET res == compute_results(s.answers)
        call == IF res.error # "None" THEN NoCall
                ELSE append_response_to_sheet(build_row_payload(res, s), secr, env)
        failed == res.error # "None" \/ call.error # "None"
    IN  [ call |-> call,
          run  |-> [s |-> s, w |-> IF failed THEN <<"submit_failed">> ELSE <<>>] ]

\* lines 577-586: compute, build the row, append; whatever happens the step
\* becomes "results"
ready_submit(s, secr, env) ==
    LET res == compute_results(s.answers)
        call == IF res.error # "None" THEN NoCall
                ELSE append_response_to_sheet(build_row_payload(res, s), secr, env)
        failed == res.error # "None" \/ call.error # "None"
    IN  [ call |-> call,
          run  |-> main([s EXCEPT !.step = "results"],
                        IF failed THEN <<"submit_failed">> ELSE <<>>) ]

render_ready_step_submit(env) ==
    /\ Rendered
    /\ session_state.step = "ready"
    /\ can_submit(secrets)
    /\ \E done \in {ready_submit(session_state, secrets, env)} :
          /\ Shown(done.run, "submit")
          /\ submission' = done.call
          /\ sheet' = sheet \o done.call.appended
    /\ store' = Some(env)
    /\ UNCHANGED <<calc, secrets, uuids, moves>>

\* lines 587-591: without credentials the only button shows the results
ready_view(s) == main([s EXCEPT !.step = "results"], <<>>)

render_ready_step_view ==
    /\ Rendered
    /\ session_state.step = "ready"
    /\ ~can_submit(secrets)
    /\ Shown(ready_view(session_state), "view")
    /\ UNCHANGED <<calc, secrets, sheet, uuids, submission, store, moves>>

\* mutant: going back to edit starts the questionnaire over
ready_edit_restart(s) ==
    main([s EXCEPT !.step = "questions", !.current_question = 0,
                   !.answers = [q \in Questions |-> None]], <<>>)

\* lines 594-596: back to the questions
ready_edit(s) == main([s EXCEPT !.step = "questions"], <<>>)

render_ready_step_edit ==
    /\ Rendered
    /\ session_state.step = "ready"
    /\ Shown(ready_edit(session_state), "edit")
    /\ UNCHANGED <<calc, secrets, sheet, uuids, submission, store, moves>>

-----------------------------------------------------------------------------
(* Step "completed": render_completion_step and reset_session *)

\* mutant: the client id is not among the keys to clear
keys_to_clear_no_client_id ==
    {"answers", "current_question", "step", "submission_status",
     "prefecture", "industry", "industry_choice", "industry_custom",
     "prefecture_select"}

keys_to_clear ==
    {"answers", "current_question", "step", "submission_status", "client_id",
     "prefecture", "industry", "industry_choice", "industry_custom",
     "prefecture_select"}

\* reset_session: the keys that are left in st.session_state
reset_session(keys) == (keys \ keys_to_clear) \ {"sliders"}

\* the button of the completion page: reset_session as its callback, then
\* the script runs on what is left of the session state
render_completion_step_reset ==
    /\ Rendered
    /\ session_state.step = "completed"
    /\ Shown(main(ensure_session_defaults(session_state,
                                          reset_session(SessionKeys),
                                          uuid4(uuids)), <<>>), "reset")
    /\ uuids' = uuid4(uuids)
    /\ UNCHANGED <<calc, secrets, sheet, submission, store, moves>>

-----------------------------------------------------------------------------
(* Specifications *)

WizardNext ==
    \/ first_run
    \/ \E p \in PrefectureSamples, sel \in IndustrySamples :
         \E cv \in custom_inputs(session_state, sel) :
            \/ render_industry_step_edit(p, sel, cv)
            \/ render_industry_step_next(p, sel, cv)
    \/ \E v \in SliderSamples : render_question_step_slider(v)
    \/ render_question_step_back
    \/ render_question_step_next
    \/ \E env \in Environments : render_ready_step_submit(env)
    \/ render_ready_step_view
    \/ render_ready_step_edit

Next ==
    \/ WizardNext
    \/ render_completion_step_reset

\* a fresh session; the completion page is never shown in it (NeverCompleted
\* holds of SpecFull), so its handler is left out of the next-state relation
Spec == Init /\ [][WizardNext]_vars

\* a fresh session under every handler
SpecFull == Init /\ [][Next]_vars

\* a session in any state of its keys, under every handler
SpecAny == InitAny /\ [][Next]_vars

NeverCompleted == session_state.step # "completed"

-----------------------------------------------------------------------------
(* The scoring functions called on their own *)

\* the key sets missing from the dicts the scoring functions are given
MissingKeySamples == {{}, {1}, {4}, {NumQuestions}, {3, 7}, Questions}

\* answer sets whose mean is a whole number, a literal of the tests or the
\* largest: q1..q10 = 10..100, 68 on average with q4 = 45, and all 100
AnswerVectors ==
    { [q \in Questions |-> Some(10 * q)],
      [q \in Questions |-> Some(IF q = 4 THEN 45 ELSE IF q = 9 THEN 75 ELSE 70)],
      [q \in Questions |-> Some(100)] }

\* the dicts given to the functions of answers: every value answered (with
\* means that end in .5 among them) with and without keys missing, and
\* dicts with a None value
AnswerSamples ==
    UNION {[Questions \ H -> {Some(0), Some(35)}] : H \in MissingKeySamples}
    \cup AnswerVectors
    \cup AnyAnswers
    \cup {[q \in Questions \ {4} |-> IF q = 1 THEN None ELSE Some(SLIDER_DEFAULT)]}

\* the scores given to the functions of scores
ScoreSamples == -1..101

\* the arguments of one call, by kind
CalcInputs(kind, args) ==
    {[fn |-> "input", kind |-> kind, arg |-> a, out |-> None] : a \in args}

\* a fresh session and the arguments of one call
InitCalc ==
    /\ session_state = ensure_session_defaults(defaults(0), {}, uuid4(0))
    /\ uuids = 1
    /\ secrets = {}
    /\ sheet = <<>>
    /\ results = None
    /\ submission = NoCall
    /\ store = None
    /\ event = "init"
    /\ warnings = <<>>
    /\ moves = 0
    /\ \/ calc \in CalcInputs("answers", AnswerSamples)
       \/ calc \in CalcInputs("score", ScoreSamples)
       \/ calc \in CalcInputs("scores", ScoreSamples \X ScoreSamples)

\* function `fn` is called on the arguments and returns `out`
Called(fn, out) ==
    /\ calc.fn = "input"
    /\ calc' = [calc EXCEPT !.fn = fn, !.out = out]
    /\ UNCHANGED <<session_state, secrets, sheet, uuids, results, submission,
                   store, event, warnings, moves>>

call_calc_ready ==
    /\ calc.kind = "answers"
    /\ Called("calc_ready", calc_ready(calc.arg))

call_compute_results ==
    /\ calc.kind = "answers"
    /\ Called("compute_results", compute_results(calc.arg))

\* lines 577-581: the row is built from the ScoreResult of the same answers
call_build_row_payload ==
    /\ calc.kind = "answers"
    /\ Questions \subseteq DOMAIN calc.arg
    /\ compute_results(calc.arg).error = "None"
    /\ \E res \in {compute_results(calc.arg)} :
          Called("build_row_payload",
                 [res |-> res,
                  row |-> build_row_payload(
                             res, [session_state EXCEPT !.answers = calc.arg])])

call_calc_reduction ==
    /\ calc.kind = "scores"
    /\ Called("calc_reduction", calc_reduction(calc.arg[1], calc.arg[2]))

\* lines 195-197 and 208 of compute_results
call_reduction_pct ==
    /\ calc.kind = "scores"
    /\ Called("reduction_pct", reduction_tenths(calc.arg[1], calc.arg[2]))

call_matrix_hint ==
    /\ calc.kind = "scores"
    /\ Called("matrix_hint", matrix_hint(calc.arg[1], calc.arg[2]))

call_suggestion_from_matrix ==
    /\ calc.kind = "scores"
    /\ Called("suggestion_from_matrix",
              suggestion_from_matrix(calc.arg[1], calc.arg[2]))

call_phase_label ==
    /\ calc.kind = "score"
    /\ Called("phase_label", phase_label(calc.arg))

call_phase_name ==
    /\ calc.kind = "score"
    /\ Called("phase_name", phase_name(calc.arg))

call_adoption_stage ==
    /\ calc.kind = "score"
    /\ Called("adoption_stage", adoption_stage(calc.arg))

\* lines 199-203 of compute_results
call_category_label ==
    /\ calc.kind = "score"
    /\ Called("category_label", category_of(calc.arg))

NextCalc ==
    \/ call_calc_ready
    \/ call_compute_results
    \/ call_build_row_payload
    \/ call_calc_reduction
    \/ call_reduction_pct
    \/ call_matrix_hint
    \/ call_suggestion_from_matrix
    \/ call_phase_label
    \/ call_phase_name
    \/ call_adoption_stage
    \/ call_category_label

\* one call of one scoring function on sampled arguments
SpecCalc == InitCalc /\ [][NextCalc]_vars

-----------------------------------------------------------------------------
(* Claims *)

Complete(answers) == \A q \in Questions : answers[q] # None

\* C1: "next" in step questions stores the slider value of the current
\* question; on the last question (index 9) the step then stays questions
\* if an answer is missing and becomes ready if all 10 are present; on an
\* earlier question the cursor advances by one and the step stays questions.
C1_NextStoresThenGates ==
    [][ event' = "next" =>
          LET s == session_state
              t == session_state'
              idx == s.current_question
              q == question_id(idx)
          IN  /\ s.step = "questions"
              /\ t.answers = [s.answers EXCEPT ![q] = Some(slider_value(s, q))]
              /\ IF idx = NumQuestions - 1
                 THEN IF ~Complete(t.answers)
                      THEN t.step = "questions" /\ t.current_question = idx
                      ELSE t.step = "ready"
                 ELSE t.step = "questions" /\ t.current_question = idx + 1
      ]_vars

\* "next" was pressed on the last question with another question unanswered
C1_Witness_Blocked ==
    /\ event = "next"
    /\ warnings = <<"unanswered">>
    /\ session_state.step = "questions"
    /\ session_state.current_question = NumQuestions - 1
    /\ session_state.answers[NumQuestions] # None
    /\ ~Complete(session_state.answers)

SubmitErrors == {"None", "NotConfigured", "ClientError", "PersistenceFailed"}

\* C2: the submit-and-view-results action of step ready always ends in step
\* results, whether the submission succeeds, is not configured, fails before
\* the first append or fails on every attempt.
C2_SubmitAlwaysShowsResults ==
    [][ /\ (Rendered /\ session_state.step = "ready") =>
              \A secr \in SUBSET {GOOGLE_SHEETS_CREDS}, env \in Environments :
                 LET done == ready_submit(session_state, secr, env) IN
                 /\ done.run.s.step = "results"
                 /\ done.call.error \in SubmitErrors
        /\ event' = "submit" =>
              /\ session_state.step = "ready"
              /\ session_state'.step = "results"
              /\ submission'.error \in SubmitErrors
      ]_vars

\* a submission whose attempts all failed, and the results are shown
C2_Witness_FailedSubmitShowsResults ==
    /\ event = "submit"
    /\ submission.error = "PersistenceFailed"
    /\ session_state.step = "results"

\* C3: with credentials configured and the row store opened, one call makes
\* append attempts until the first that succeeds and never more than 3; if
\* all 3 fail it reports PersistenceFailed wrapping the failure of attempt 3,
\* and a failure of attempt 1 or 2 is never what the caller gets.
C3_RetryUntilFirstSuccess ==
    (event = "submit" /\ store # None /\ store[1].client) =>
        LET a == store[1].append
            oks == {i \in 1..3 : a[i] = "ok"}
            fails_before(n) == \A i \in 1..(n - 1) : a[i] # "ok"
        IN  /\ submission.attempts \in 1..3
            /\ fails_before(submission.attempts)
            /\ oks # {} => /\ submission.error = "None"
                           /\ a[submission.attempts] = "ok"
            /\ oks = {} => /\ submission.error = "PersistenceFailed"
                           /\ submission.attempts = 3
                           /\ submission.cause = 3
            /\ (a[1] # "ok" /\ a[2] # "ok" /\ a[3] = "ok") =>
                   (submission.attempts = 3 /\ submission.error = "None")

\* the destination failed twice and then succeeded
C3_Witness_ThirdAttemptSucceeds ==
    /\ event = "submit"
    /\ store # None
    /\ store[1].client
    /\ store[1].append[1] # "ok"
    /\ store[1].append[2] # "ok"
    /\ submission.error = "None"
    /\ submission.attempts = 3

\* C4: without the credential blob a call of submit fails at once with
\* NotConfigured, with no append attempt and no wait; the wizard goes on:
\* from ready the results can be viewed, and the session makes no append
\* attempt at all.
C4_NotConfiguredIsHarmless ==
    ~can_submit(secrets) =>
        /\ submission.attempts = 0
        /\ submission.waits = <<>>
        /\ sheet = <<>>
        /\ session_state.step \in Steps
        /\ (Rendered /\ session_state.step = "ready") =>
              /\ ENABLED render_ready_step_view
              /\ ready_view(session_state).s.step = "results"
        /\ Complete(session_state.answers) =>
              \A env \in Environments :
                 LET row == build_row_payload(compute_results(session_state.answers),
                                              session_state)
                     call == append_response_to_sheet(row, secrets, env)
                 IN  /\ call.error = "NotConfigured"
                     /\ call.attempts = 0
                     /\ call.waits = <<>>
                     /\ call.appended = <<>>

\* without credentials the results were reached from ready
C4_Witness_ViewWithoutCredentials ==
    /\ ~can_submit(secrets)
    /\ event = "view"
    /\ session_state.step = "results"
    /\ results # None
    /\ sheet = <<>>

\* C5: when step results is rendered with an answer missing, no ScoreResult
\* is computed: the step becomes questions and the cursor is the index of
\* the first unanswered question; the answers are left as they are.
C5_ResultsFailClosed ==
    [][ (session_state.step = "results" /\ ~Complete(session_state.answers)) =>
          LET s == session_state
              t == session_state'
          IN  /\ t.step = "questions"
              /\ results' = None
              /\ s.answers[question_id(t.current_question)] = None
              /\ \A q \in Questions :
                    q < question_id(t.current_question) => s.answers[q] # None
              /\ t.answers = s.answers
      ]_vars

\* the results page was asked for with questions 3 and 7 unanswered
C5_Witness_RedirectedToFirstUnanswered ==
    /\ event = "load"
    /\ warnings = <<"results_incomplete">>
    /\ session_state.step = "questions"
    /\ session_state.current_question = 2
    /\ session_state.answers[7] = None
    /\ results = None

\* C6: in a fresh session, whenever the step is ready or results every one
\* of the 10 questions has an integer answer in [0,100]; no ScoreResult is
\* a scoring error and every appended row holds 10 answers in [0,100].
C6_ReadyAndResultsAreComplete ==
    /\ session_state.step \in {"ready", "results"} =>
          \A q \in Questions :
             /\ session_state.answers[q] # None
             /\ session_state.answers[q][1] \in SLIDER_MIN..100
    /\ results # None => results[1].error = "None"
    /\ \A i \in 1..Len(sheet) : \A j \in 2..11 : sheet[i][j] \in SLIDER_MIN..100

\* a row was appended and the results are shown, one answer moved to 100
C6_Witness_SubmittedCompleteSet ==
    /\ session_state.step = "results"
    /\ event = "submit"
    /\ Len(sheet) = 1
    /\ \E q \in Questions : session_state.answers[q] = Some(100)

\* C7 (as stated): the wizard goes on from results to completed, that is, a
\* shown results page offers a transition to step completed.
C7_ResultsLeadsToCompleted ==
    (Rendered /\ session_state.step = "results") =>
        ENABLED (Next /\ session_state'.step = "completed")

\* C8 (as stated): from a shown results page with a complete AnswerSet an
\* action leads back to questions and leaves the AnswerSet unchanged.
C8_ResultsOffersEdit ==
    (Rendered /\ session_state.step = "results"
              /\ Complete(session_state.answers)) =>
        ENABLED (/\ Next
                 /\ session_state'.step = "questions"
                 /\ session_state'.answers = session_state.answers)

\* C8 (amended): a shown results page offers no action, so none leads back
\* to questions; the action that goes back to edit is offered in step ready:
\* it leads to questions and leaves the AnswerSet unchanged.
C8_EditFromReadyOnly ==
    [][ LET s == session_state
            t == session_state'
        IN  /\ ~(Rendered /\ s.step = "results")
            /\ event' = "edit" =>
                  /\ s.step = "ready"
                  /\ t.step = "questions"
                  /\ t.answers = s.answers
      ]_vars

\* back to edit from ready with a complete AnswerSet that holds a moved answer
C8_Witness_EditKeepsAnswers ==
    /\ event = "edit"
    /\ session_state.step = "questions"
    /\ Complete(session_state.answers)
    /\ \E q \in Questions : session_state.answers[q] # Some(SLIDER_DEFAULT)

ready_shown == Rendered /\ session_state.step = "ready"

\* C9 (as stated): every shown ready page offers three actions: submit and
\* view results, view results only, and return to edit.
C9_ThreeActionsOffered ==
    ready_shown =>
        /\ ENABLED (\E env \in Environments : render_ready_step_submit(env))
        /\ ENABLED render_ready_step_view
        /\ ENABLED render_ready_step_edit

\* C9 (amended): every shown ready page offers return to edit and exactly
\* one of submit and view results (credentials configured) and view results
\* only (not configured); view results only leads to results without any
\* append attempt, return to edit leads to questions.
C9_TwoActionsOffered ==
    /\ ready_shown =>
          /\ ENABLED render_ready_step_edit
          /\ ENABLED (\E env \in Environments : render_ready_step_submit(env))
                <=> (GOOGLE_SHEETS_CREDS \in secrets)
          /\ ENABLED render_ready_step_view
                <=> (GOOGLE_SHEETS_CREDS \notin secrets)
    /\ event = "view" =>
          /\ session_state.step = "results"
          /\ submission = NoCall
          /\ sheet = <<>>
    /\ event = "edit" => session_state.step = "questions"

\* with credentials configured the user went back from ready to edit
C9_Witness_EditWithCredentials ==
    /\ GOOGLE_SHEETS_CREDS \in secrets
    /\ event = "edit"
    /\ session_state.step = "questions"
    /\ sheet = <<>>

\* C10: reset leaves every answer unanswered, the cursor 0, the default
\* region, no industry, an empty free text, step industry and a client id
\* other than the previous one; a shown completion page offers only reset.
C10_ResetStartsOver ==
    [][ LET s == session_state
            t == session_state'
        IN  /\ event' = "reset" =>
                  /\ s.step = "completed"
                  /\ \A q \in Questions : t.answers[q] = None
                  /\ t.current_question = 0
                  /\ t.prefecture = DEFAULT_PREFECTURE
                  /\ t.industry = None
                  /\ t.industry_custom = <<>>
                  /\ t.step = "industry"
                  /\ t.client_id # s.client_id
            /\ (Rendered /\ s.step = "completed") => event' = "reset"
      ]_vars

\* a session was reset
C10_Witness_AfterReset ==
    /\ event = "reset"
    /\ session_state.step = "industry"
    /\ session_state.client_id = uuids
    /\ uuids > 1

\* a text that is empty or made of whitespace only
Blank(text) == \A i \in 1..Len(text) : text[i] \in {" ", "\t", "\n"}

\* out is text without its leading and trailing whitespace
Trimmed(text, out) ==
    \E i \in 1..Len(text), j \in 1..Len(text) :
        /\ out = SubSeq(text, i, j)
        /\ Blank(SubSeq(text, 1, i - 1))
        /\ Blank(SubSeq(text, j + 1, Len(text)))
        /\ ~Blank(<<text[i]>>)
        /\ ~Blank(<<text[j]>>)

\* C11: the advance button of step industry. With the free-text choice
\* selected and a blank free text the step stays industry and the stored
\* industry is unchanged; with a non-blank free text the industry becomes
\* the trimmed text, with any other choice it becomes that choice, and in
\* both cases the step becomes questions.
C11_IndustryAdvance ==
    [][ event' = "industry_next" =>
          LET s == session_state
              t == session_state'
              selected == t.industry_choice
              custom_value == t.industry_custom
          IN  /\ s.step = "industry"
              /\ IF selected = OTHER_INDUSTRY
                 THEN IF Blank(custom_value)
                      THEN t.step = "industry" /\ t.industry = s.industry
                      ELSE /\ t.step = "questions"
                           /\ t.industry # None
                           /\ Trimmed(custom_value, t.industry[1])
                 ELSE t.step = "questions" /\ t.industry = Some(selected)
      ]_vars

\* the advance button was pressed with a free text of whitespace only
C11_Witness_BlankBlocked ==
    /\ event = "industry_next"
    /\ session_state.industry_choice = OTHER_INDUSTRY
    /\ session_state.industry_custom = <<" ">>
    /\ session_state.step = "industry"
    /\ warnings = <<"industry_required">>

\* a complete AnswerSet: the keys q1..q10, each with an integer in [0,100]
CompleteSet(answers) ==
    /\ DOMAIN answers = Questions
    /\ \A q \in Questions : answers[q] # None /\ answers[q][1] \in 0..100

\* ten times the arithmetic mean of a complete AnswerSet
TenMeans(answers) ==
    answers[1][1] + answers[2][1] + answers[3][1] + answers[4][1] + answers[5][1]
    + answers[6][1] + answers[7][1] + answers[8][1] + answers[9][1] + answers[10][1]

Distance(x, y) == IF x >= y THEN x - y ELSE y - x

\* C12: on a complete AnswerSet the readiness index is an integer nearest to
\* the mean of the 10 values, a mean ending in .5 goes to the even neighbour
\* in logic.calc_ready and in app.compute_results alike, both return the
\* same integer, and it lies in [0,100].
C12_ReadinessIsRoundedMean ==
    (calc.fn \in {"calc_ready", "compute_results"} /\ CompleteSet(calc.arg)) =>
        /\ calc.out.error = "None"
        /\ LET ready == IF calc.fn = "calc_ready" THEN calc.out.value
                        ELSE calc.out.ai_ready
               total == TenMeans(calc.arg)
           IN  /\ ready \in 0..100
               /\ 2 * Distance(10 * ready, total) <= 10
               /\ total % 10 = 5 => ready % 2 = 0
               /\ ready = calc_ready(calc.arg).value
               /\ ready = compute_results(calc.arg).ai_ready

\* compute_results on three answers of 35 and seven of 0: the mean 10.5 gave 10
C12_Witness_TieToEven ==
    /\ calc.fn = "compute_results"
    /\ CompleteSet(calc.arg)
    /\ TenMeans(calc.arg) = 105
    /\ calc.out.error = "None"
    /\ calc.out.ai_ready = 10

\* C13: a readiness computation on an AnswerSet with fewer than 10 entries
\* or with an unanswered (None) entry fails with an error instead of
\* returning a score, in logic.calc_ready and in app.compute_results.
C13_IncompleteAnswersFail ==
    ( /\ calc.fn \in {"calc_ready", "compute_results"}
      /\ \/ Cardinality(DOMAIN calc.arg) < 10
         \/ \E q \in DOMAIN calc.arg : calc.arg[q] = None ) =>
        calc.out.error # "None"

\* the band of a score in [0,100]: 1 start, 2 trial, 3 scale; 0 outside
Band(score) ==
    IF score \in 0..39 THEN 1
    ELSE IF score \in 40..69 THEN 2
    ELSE IF score \in 70..100 THEN 3
    ELSE 0

\* C14: every integer score in [0,39] is classified start (seedling), in
\* [40,69] trial (wrench), in [70,100] scale (rocket), by the library and by
\* the results screen; every integer outside [0,100] gets the unclassified
\* marker (question mark) from phase_label.
C14_BandsAreExact ==
    /\ calc.fn = "phase_label" =>
          calc.out = CASE Band(calc.arg) = 1 -> "seedling"
                       [] Band(calc.arg) = 2 -> "wrench"
                       [] Band(calc.arg) = 3 -> "rocket"
                       [] OTHER -> "question_mark"
    /\ (calc.fn = "phase_name" /\ calc.arg \in 0..100) =>
          calc.out = CASE Band(calc.arg) = 1 -> "junbi"
                       [] Band(calc.arg) = 2 -> "shikou"
                       [] Band(calc.arg) = 3 -> "kakuchou"
    /\ (calc.fn = "category_label" /\ calc.arg \in 0..100) =>
          calc.out = CASE Band(calc.arg) = 1 -> "start"
                       [] Band(calc.arg) = 2 -> "trial"
                       [] Band(calc.arg) = 3 -> "scale"

\* phase_label was called on the lower boundary of the second band
C14_Witness_BoundaryForty ==
    /\ calc.fn = "phase_label"
    /\ calc.arg = 40
    /\ calc.out = "wrench"

\* the 9 entries by (readiness band, adoption band), bands numbered 1..3
HintGrid ==
    << <<"foundation_and_small_trials", "share_success_cases", "governance">>,
       <<"daily_reports_first", "templates_and_measurement",
         "standardise_and_train">>,
       <<"high_effect_departments", "company_wide_optimisation_and_roi",
         "automation_and_advanced_use">> >>

SuggestionGrid ==
    << <<"start_with_the_foundation", "spread_the_success_cases",
         "build_governance">>,
       <<"start_now_with_daily_reports", "measure_and_roll_out",
         "standardise_and_train">>,
       <<"full_introduction_now", "company_wide_optimisation_and_roi",
         "automation_and_advanced_use">> >>

\* C15: for every pair (readiness, adoption) in [0,100] x [0,100] the matrix
\* lookup returns the table entry of (readiness band, adoption band), the
\* adoption bands being [0,39], [40,69], [70,100], and never the fallback
\* text; (20,10), (50,20) and (75,50) select the foundation, daily-reports
\* and company-wide-optimisation entries. This holds for logic.matrix_hint
\* and for app.suggestion_from_matrix.
C15_MatrixLookupIsTotal ==
    LET ready == calc.arg[1]
        adoption == calc.arg[2]
        in_range == ready \in 0..100 /\ adoption \in 0..100
    IN  /\ (calc.fn = "matrix_hint" /\ in_range) =>
              /\ calc.out = HintGrid[Band(ready)][Band(adoption)]
              /\ calc.out # "consider_the_current_situation"
              /\ calc.arg = <<20, 10>> => calc.out = "foundation_and_small_trials"
              /\ calc.arg = <<50, 20>> => calc.out = "daily_reports_first"
              /\ calc.arg = <<75, 50>> =>
                    calc.out = "company_wide_optimisation_and_roi"
        /\ (calc.fn = "suggestion_from_matrix" /\ in_range) =>
              /\ calc.out = SuggestionGrid[Band(ready)][Band(adoption)]
              /\ calc.out # "consider_the_next_step"
              /\ calc.arg = <<20, 10>> => calc.out = "start_with_the_foundation"
              /\ calc.arg = <<50, 20>> => calc.out = "start_now_with_daily_reports"
              /\ calc.arg = <<75, 50>> =>
                    calc.out = "company_wide_optimisation_and_roi"

\* matrix_hint was called on the test literal (75, 50)
C15_Witness_ScalePartial ==
    /\ calc.fn = "matrix_hint"
    /\ calc.arg = <<75, 50>>
    /\ calc.out = "company_wide_optimisation_and_roi"

\* C16 as stated: every reduction the program computes for readiness 68 and
\* adoption 45 is within 0.01 of 42.84 (42840 thousandths of a percent).
C16_ReductionWithinHundredth ==
    /\ (calc.fn = "calc_reduction" /\ calc.arg = <<68, 45>>) =>
          Distance(calc.out, 42840) <= 10
    /\ (calc.fn = "reduction_pct" /\ calc.arg = <<68, 45>>) =>
          Distance(100 * calc.out, 42840) <= 10
    /\ (calc.fn = "compute_results" /\ calc.out.error = "None"
          /\ calc.out.ai_ready = 68 /\ calc.out.ai_adoption = 45) =>
          Distance(100 * calc.out.reduction_pct, 42840) <= 10

\* C16, amended: for readiness 68 and adoption 45 calc_reduction returns a
\* value within 0.01 of 42.84, and the reduction_pct of the ScoreResult is
\* that value rounded to one decimal, 42.8.
C16_ReductionRoundedToTenth ==
    /\ (calc.fn = "calc_reduction" /\ calc.arg = <<68, 45>>) =>
          Distance(calc.out, 42840) <= 10
    /\ (calc.fn = "reduction_pct" /\ calc.arg = <<68, 45>>) => calc.out = 428
    /\ (calc.fn = "compute_results" /\ calc.out.error = "None"
          /\ calc.out.ai_ready = 68 /\ calc.out.ai_adoption = 45) =>
          calc.out.reduction_pct = 428

\* compute_results was called on answers of mean 68 with q4 = 45
C16_Witness_ScoreResult ==
    /\ calc.fn = "compute_results"
    /\ CompleteSet(calc.arg)
    /\ calc.out.ai_ready = 68
    /\ calc.out.ai_adoption = 45
    /\ calc.out.reduction_pct = 428

\* C17: for all integers readiness and adoption in [0,100] the reduction
\* lies in [0,100] percent and, for a fixed adoption, does not decrease when
\* the readiness grows; for the unrounded value of logic.calc_reduction (in
\* thousandths) and for the rounded reduction_pct of app.compute_results (in
\* tenths).
C17_ReductionBoundedMonotone ==
    LET ready == calc.arg[1]
        adoption == calc.arg[2]
        in_range == ready \in 0..100 /\ adoption \in 0..100
    IN  /\ (calc.fn = "calc_reduction" /\ in_range) =>
              /\ 0 <= calc.out /\ calc.out <= 100 * 1000
              /\ \A ready2 \in ready..100 :
                    calc.out <= calc_reduction(ready2, adoption)
        /\ (calc.fn = "reduction_pct" /\ in_range) =>
              /\ 0 <= calc.out /\ calc.out <= 100 * 10
              /\ \A ready2 \in ready..100 :
                    calc.out <= reduction_tenths(ready2, adoption)

\* calc_reduction was called on the pair with the largest reduction, 90 %
C17_Witness_LargestReduction ==
    /\ calc.fn = "calc_reduction"
    /\ calc.arg = <<100, 0>>
    /\ calc.out = 90 * 1000

RowLayout(row, answers, res) ==
    /\ row[1] = "timestamp"
    /\ \A q \in Questions : row[1 + q] = answers[q][1]
    /\ row[12] = res.ai_ready
    /\ row[13] = res.ai_adoption
    /\ row[14] = res.reduction_pct
    /\ row[15] = session_state.prefecture
    /\ row[16] = or_empty(session_state.industry)
    /\ row[17] = session_state.client_id
    /\ row[18] = "streamlit-client"
    /\ row[19] = "direct"

\* C19 as stated: every submission row has exactly 19 columns in the order
\* [timestamp, answer_1..answer_10, readiness, adoption, reduction_pct,
\* region, industry, client_id, user_agent, referrer, notes], and columns
\* 2-11 and 12, 13, 14 read back the answers and the ScoreResult.
C19_RowHasNineteenColumns ==
    (calc.fn = "build_row_payload" /\ CompleteSet(calc.arg)) =>
        /\ Len(calc.out.row) = 19
        /\ RowLayout(calc.out.row, calc.arg, calc.out.res)

\* C19, amended: the row has exactly 20 columns, the 20 names of the stated
\* order, and the round trip of columns 2-11 and 12, 13, 14 holds.
C19_RowHasTwentyColumns ==
    (calc.fn = "build_row_payload" /\ CompleteSet(calc.arg)) =>
        /\ Len(calc.out.row) = 20
        /\ RowLayout(calc.out.row, calc.arg, calc.out.res)
        /\ calc.out.row[20] = ""
        /\ calc.out.res = compute_results(calc.arg)

\* a row was built from the answers 10, 20, .., 100
C19_Witness_RowOfTestAnswers ==
    /\ calc.fn = "build_row_payload"
    /\ calc.arg = [q \in Questions |-> Some(10 * q)]
    /\ calc.out.row[5] = 40
    /\ calc.out.row[12] = 55
    /\ calc.out.row[13] = 40

\* the library's phase name for a category of the results screen
NameOfCategory(category) ==
    CASE category = "start" -> "junbi"
      [] category = "trial" -> "shikou"
      [] category = "scale" -> "kakuchou"

\* the results screen and the library select the same cell of the 3x3
\* table, or both fall back
SameSuggestion(screen, library) ==
    \/ \E i \in 1..3, j \in 1..3 :
          screen = SuggestionGrid[i][j] /\ library = HintGrid[i][j]
    \/ screen = "consider_the_next_step"
          /\ library = "consider_the_current_situation"

\* C20: for every integer score outside [0,100] the readiness and the
\* adoption classification treat it the same way, and the classification of
\* the results screen (compute_results, suggestion_from_matrix) gives the
\* same outcome as the library's (phase_name, adoption_stage, matrix_hint).
C20_OneOutOfRangePolicy ==
    /\ (calc.fn = "phase_name" /\ calc.arg \notin 0..100) =>
          (calc.out = "mibunrui") <=> (adoption_stage(calc.arg) = "mibunrui")
    /\ (calc.fn = "category_label" /\ calc.arg \notin 0..100) =>
          NameOfCategory(calc.out) = phase_name(calc.arg)
    /\ (calc.fn = "suggestion_from_matrix"
          /\ (calc.arg[1] \notin 0..100 \/ calc.arg[2] \notin 0..100)) =>
          SameSuggestion(calc.out, matrix_hint(calc.arg[1], calc.arg[2]))

\* C21: every failure of the row store during one submit call, when the
\* spreadsheet or the worksheet is opened as well as when the row is
\* appended, is retried up to the bound of 3 attempts, and only a final
\* failure, reported as PersistenceFailed, leaves the call.
C21_EveryStoreFailureIsRetried ==
    (event = "submit" /\ can_submit(secrets) /\ submission.error # "None") =>
        /\ submission.error = "PersistenceFailed"
        /\ submission.attempts = max_attempts

\* a submit call that reached the retry loop
loop_entered == event = "submit" /\ can_submit(secrets) /\ store[1].client

\* the seconds of the waits of a log, in order
Sleeps(log) ==
    LET slept == SelectSeq(log, LAMBDA e : e.op = "sleep")
    IN  [i \in 1..Len(slept) |-> slept[i].n]

Failed(e) == e.op = "append_row" /\ e.outcome # "ok"

\* every wait of the log stands between a failed attempt and the next
\* attempt, and nothing follows a successful attempt
WaitsAreBetweenAttempts(log) ==
    \A i \in 1..Len(log) :
        /\ log[i].op = "sleep" =>
              /\ i > 1 /\ Failed(log[i - 1])
              /\ i < Len(log) /\ log[i + 1].op = "append_row"
              /\ log[i + 1].n = log[i - 1].n + 1
        /\ (log[i].op = "append_row" /\ log[i].outcome = "ok") => i = Len(log)

\* C22 as stated: after the k-th failed attempt the wait is 2^(k-1) seconds,
\* so a submit whose attempts all fail goes through the waits 1s, 2s, 4s;
\* every wait is between a failed attempt and the next event of the call and
\* no wait follows a successful attempt.
C22_BackoffAfterEveryFailure ==
    loop_entered =>
        LET log == submission.log IN
        /\ \A i \in 1..Len(log) :
              Failed(log[i]) =>
                  i < Len(log) /\ log[i + 1] = sleep(2 ^ (log[i].n - 1))
        /\ submission.error = "PersistenceFailed" => Sleeps(log) = <<1, 2, 4>>
        /\ \A i \in 1..Len(log) :
              log[i].op = "sleep" => i > 1 /\ Failed(log[i - 1])
        /\ \A i \in 1..Len(log) :
              (log[i].op = "append_row" /\ log[i].outcome = "ok") => i = Len(log)

\* C22, amended: after the k-th failed attempt, k < 3, the wait is 2^(k-1)
\* seconds and the next attempt follows it; the third failed attempt ends
\* the call without a wait, so a submit whose attempts all fail waits 1s and
\* 2s; no wait follows a successful attempt.
C22_BackoffBetweenAttempts ==
    loop_entered =>
        LET log == submission.log IN
        /\ \A i \in 1..Len(log) :
              Failed(log[i]) =>
                  IF log[i].n < max_attempts
                  THEN i < Len(log) /\ log[i + 1] = sleep(2 ^ (log[i].n - 1))
                  ELSE i = Len(log)
        /\ WaitsAreBetweenAttempts(log)
        /\ submission.error = "PersistenceFailed" => Sleeps(log) = <<1, 2>>
        /\ submission.waits = Sleeps(log)

\* a submit whose three attempts failed: it waited 1s and 2s
C22_Witness_AllAttemptsFailed ==
    /\ loop_entered
    /\ submission.error = "PersistenceFailed"
    /\ Len(submission.log) = 5
    /\ submission.waits = <<1, 2>>

\* C23: in step questions the back action sets the cursor to
\* max(0, cursor - 1) and leaves the step questions, and it is offered on
\* every question but the first whatever the answers are; in every reachable
\* state the cursor is one of 0..9.
C23_BackAndCursorRange ==
    /\ [](session_state.current_question \in 0..(NumQuestions - 1))
    /\ []((Rendered /\ session_state.step = "questions"
             /\ session_state.current_question > 0) =>
              ENABLED render_question_step_back)
    /\ [][ event' = "back" =>
              LET idx == session_state.current_question IN
              /\ session_state.step = "questions"
              /\ session_state'.step = "questions"
              /\ session_state'.current_question = IF idx - 1 > 0 THEN idx - 1 ELSE 0
          ]_vars

\* back was pressed on the second question with later questions unanswered
C23_Witness_BackWithUnanswered ==
    /\ event = "back"
    /\ session_state.step = "questions"
    /\ session_state.current_question = 0
    /\ session_state.answers[2] # None
    /\ session_state.answers[NumQuestions] = None

\* C24: in every state reachable from a fresh session the questions before
\* the cursor are answered: next and back store the slider value of the
\* question they leave and no action un-answers a question. So next on the
\* last question always finds the AnswerSet complete, leads to ready, and
\* the warning of an unanswered question is never shown.
C24_AnsweredBeforeCursor ==
    /\ [](\A q \in Questions :
            q < question_id(session_state.current_question) =>
                session_state.answers[q] # None)
    /\ [](warnings # <<"unanswered">>)
    /\ [][ LET s == session_state
               t == session_state'
               q == question_id(s.current_question)
           IN  /\ \A r \in Questions :
                     s.answers[r] # None => t.answers[r] # None
               /\ event' \in {"next", "back"} =>
                     t.answers[q] = Some(slider_value(s, q))
               /\ (event' = "next" /\ s.current_question = NumQuestions - 1) =>
                     Complete(t.answers) /\ t.step = "ready"
         ]_vars

\* next was pressed on the last question after going back and forth
C24_Witness_NextOnLastQuestion ==
    /\ event = "next"
    /\ session_state.step = "ready"
    /\ session_state.current_question = NumQuestions - 1
    /\ Complete(session_state.answers)
    /\ moves = MaxSliderMoves

\* the append_row calls of the submission
Attempts == {i \in DOMAIN submission.log : submission.log[i].op = "append_row"}

\* the row store reported every outcome as it was
Truthful ==
    store # None =>
        \A i \in 1..max_attempts : store[1].append[i] \in {"ok", "error"}

\* C25: a session submits at most once: submit is pressed on "ready" with no
\* earlier call, it always leads to "results", and "results" is never left.
\* So there are at most max_attempts append_row calls, and with a truthful
\* row store at most one row in the sheet: one exactly when submit succeeded.
C25_AtMostOneSubmission ==
    /\ [][ event' = "submit" =>
              /\ submission = NoCall
              /\ sheet = <<>>
              /\ session_state.step = "ready"
              /\ session_state'.step = "results"
         ]_vars
    /\ [][ session_state.step = "results" => session_state'.step = "results" ]_vars
    /\ [](submission # NoCall => session_state.step = "results")
    /\ [](/\ Cardinality(Attempts) = submission.attempts
          /\ submission.attempts <= max_attempts)
    /\ [](Truthful =>
            /\ Len(sheet) <= 1
            /\ Len(sheet) = 1 <=> submission.error = "None")

\* a truthful store: submit succeeded at the last attempt, one row landed
C25_Witness_OneRowAfterRetries ==
    /\ event = "submit"
    /\ Truthful
    /\ submission.error = "None"
    /\ submission.attempts = max_attempts
    /\ Len(sheet) = 1
    /\ session_state.step = "results"

====
